---- MODULE Spec2Model ----
(***************************************************************************)
(* Model of src/app.py: a Streamlit script that is re-executed from top to *)
(* bottom on every user interaction.  One action of the model is one run   *)
(* of the script, handling exactly one interaction (a button press, one    *)
(* checkbox flip or one slider move).  Across runs the framework keeps     *)
(* st.session_state and the state of every widget that was rendered, with  *)
(* the same identity, by the previous run.  A checkbox created without a   *)
(* key is identified by its label and its `value` argument, so a checkbox  *)
(* whose default changes is a new widget and starts at the new default,    *)
(* while one whose default is unchanged keeps what the user last set.      *)
(*                                                                         *)
(* A button returns True only in the run its click started, and a run      *)
(* handles one click.  The widgets of a run that ends in an exception      *)
(* after the sidebar was drawn are kept like those of a complete run.      *)
(*                                                                         *)
(* Numbers: pandas computes in binary floating point; the model computes   *)
(* the same expressions in exact rational arithmetic (normalised           *)
(* <<numerator, denominator>> pairs).  Dates are day numbers, already      *)
(* parsed; every cell of the table holds a value (no NaN, no NaT).         *)
(***************************************************************************)
EXTENDS Integers, Sequences, FiniteSets, TLC

VARIABLES
    columns,                \* df.columns of polls.csv
    df,                     \* rows of polls.csv, in file order
    session_state,          \* st.session_state: key -> BOOLEAN
    checkbox_state,         \* widget store: <<label, default>> -> BOOLEAN
    slider_state,           \* widget store: slider label -> span
    event,                  \* the interaction handled by the last run
    status,                 \* how the last run ended
    selected_pollsters_dict,
    daily_avg_approve,
    daily_avg_disapprove,
    latest_date,            \* <<>> is NaT, else <<day>>
    latest_approve,         \* <<>> when never assigned, else <<value>>
    latest_disapprove

vars == <<columns, df, session_state, checkbox_state, slider_state, event,
          status, selected_pollsters_dict, daily_avg_approve,
          daily_avg_disapprove, latest_date, latest_approve,
          latest_disapprove>>

(***************************************************************************)
(* Bounds of the explored inputs.                                          *)
(***************************************************************************)
MaxRows == 3

\* slider(min_value=2, max_value=20, value=5)
SpanMin == 2
SpanMax == 20
SpanDefault == 5

\* Slider positions tried in the interactive specification.
SpanChoices == {SpanMin, SpanDefault}

\* Lexicographic order of the pollster names that occur in the explored CSVs.
NameOrder == <<"A", "B", "Gallup">>

\* Rows the explored CSVs are built from.  Disapprove is what the file holds
\* in that column when the column exists.
RowChoices ==
    { [pollster |-> "A",      date |-> 1, Approve |-> 40, Disapprove |-> 55],
      [pollster |-> "B",      date |-> 1, Approve |-> 44, Disapprove |-> 50],
      [pollster |-> "A",      date |-> 2, Approve |-> 30, Disapprove |-> 65],
      [pollster |-> "Gallup", date |-> 3, Approve |-> 44, Disapprove |-> 51] }

ColumnChoices ==
    { {"pollster", "date", "Approve", "Disapprove"},
      {"pollster", "date", "Approve"},
      {"pollster", "date", "Disapprove"},
      {"pollster", "Approve"},
      {"date", "Approve", "Disapprove"} }

RECURSIVE SeqsUpTo(_, _)
SeqsUpTo(S, n) ==
    IF n = 0 THEN {<<>>}
    ELSE LET shorter == SeqsUpTo(S, n - 1)
         IN  shorter \cup {Append(s, x) : s \in shorter, x \in S}

Datasets == SeqsUpTo(RowChoices, MaxRows)

(***************************************************************************)
(* Exact arithmetic.                                                       *)
(***************************************************************************)
RECURSIVE GCD(_, _)
GCD(a, b) == IF b = 0 THEN a ELSE GCD(b, a % b)

Frac(n, d) == LET g == GCD(n, d) IN <<n \div g, d \div g>>
FInt(n) == <<n, 1>>
FAdd(x, y) ==
    LET l == (x[2] * y[2]) \div GCD(x[2], y[2])
    IN  Frac(x[1] * (l \div x[2]) + y[1] * (l \div y[2]), l)
FMul(x, y) ==
    LET a == Frac(x[1], y[2])
        b == Frac(y[1], x[2])
    IN  Frac(a[1] * b[1], a[2] * b[2])
FDiv(x, y) == FMul(x, <<y[2], y[1]>>)
FSub1(x) == Frac(x[2] - x[1], x[2])        \* 1 - x, for 0 <= x <= 1

(***************************************************************************)
(* Program constants.                                                      *)
(***************************************************************************)
best_ranked_pollsters ==
    { "Ipsos", "Reuters/Ipsos", "NBC News", "FOX News", "Wall Street Journal",
      "IBD/TIPP", "Gallup", "Wash Post/Ipsos", "TIPP", "Economist/YouGov",
      "ABC/Wash Post/Ipsos", "NY Times/Siena", "SurveyUSA", "Marquette",
      "Atlas Intel", "Cygnal", "I&I/TIPP", "Emerson", "CBS News",
      "Quinnipiac", "University of Connecticut", "YouGov", "Elon University" }

required_cols == {"pollster", "date", "Approve"}

SliderLabel == "Smoothing span (higher = smoother)"

NoState == [k \in {} |-> FALSE]

(***************************************************************************)
(* Loading: lines 54-62.                                                   *)
(***************************************************************************)
\* if "Disapprove" not in df.columns: df["Disapprove"] = 100 - df["Approve"]
AddDisapprove(cols, d) ==
    [i \in DOMAIN d |->
        IF "Disapprove" \in cols THEN d[i]
        ELSE [d[i] EXCEPT !.Disapprove = 100 - d[i].Approve]]

\* pollsters = sorted(df["pollster"].unique())
pollsters(d) ==
    SelectSeq(NameOrder, LAMBDA n : \E i \in DOMAIN d : d[i].pollster = n)

\* The labels the checkbox loop goes through.
Known(d) == {pollsters(d)[i] : i \in DOMAIN pollsters(d)}

(***************************************************************************)
(* Session state and the sidebar: lines 65-94.                             *)
(***************************************************************************)
\* Variant: both flags start cleared.
InitSessionState_AllFalse(ss) ==
    [k \in {"select_all", "best538"} |->
        IF k \in DOMAIN ss THEN ss[k] ELSE FALSE]

\* if "select_all" not in st.session_state: ... False
\* if "best538" not in st.session_state: ... True
InitSessionState(ss) ==
    [k \in {"select_all", "best538"} |->
        IF k \in DOMAIN ss THEN ss[k] ELSE (k = "best538")]

\* Variant: the Select All handler leaves best538 as it was.
ButtonHandlers_KeepBest538(ss, ev) ==
    IF ev[1] = "select_all" THEN [ss EXCEPT !["select_all"] = TRUE]
    ELSE IF ev[1] = "deselect_all"
         THEN [ss EXCEPT !["select_all"] = FALSE, !["best538"] = FALSE]
    ELSE IF ev[1] = "best538"
         THEN [ss EXCEPT !["select_all"] = FALSE, !["best538"] = TRUE]
    ELSE ss

\* The three st.sidebar.button(...) blocks; a button returns True only in the
\* run its click started.
ButtonHandlers(ss, ev) ==
    LET s1 == IF ev[1] = "select_all"
              THEN [ss EXCEPT !["select_all"] = TRUE, !["best538"] = FALSE]
              ELSE ss
        s2 == IF ev[1] = "deselect_all"
              THEN [s1 EXCEPT !["select_all"] = FALSE, !["best538"] = FALSE]
              ELSE s1
    IN  IF ev[1] = "best538"
        THEN [s2 EXCEPT !["select_all"] = FALSE, !["best538"] = TRUE]
        ELSE s2

\* default = poll in best_ranked_pollsters / st.session_state["select_all"]
CheckboxDefault(ss, poll) ==
    IF ss["best538"] THEN poll \in best_ranked_pollsters ELSE ss["select_all"]

\* Variant: a checkbox that always shows its default.
CheckboxValue_IgnoreStore(store, poll, default) == default

\* st.sidebar.checkbox(poll, value=default): the stored value of the widget
\* with this label and this default when the previous run rendered it, else
\* the default.
CheckboxValue(store, poll, default) ==
    IF <<poll, default>> \in DOMAIN store THEN store[<<poll, default>>]
    ELSE default

\* selected_pollsters_dict, built by the loop over pollsters
CheckboxList(ss, store, d) ==
    [poll \in Known(d) |-> CheckboxValue(store, poll, CheckboxDefault(ss, poll))]

\* The checkbox widgets a run leaves in the widget store.
RenderedCheckboxes(ss, dict) ==
    [id \in {<<poll, CheckboxDefault(ss, poll)>> : poll \in DOMAIN dict} |->
        dict[id[1]]]

\* selected_pollsters = [poll for poll, selected in ...items() if selected]
selected_pollsters(dict, d) ==
    SelectSeq(pollsters(d), LAMBDA poll : dict[poll])

\* filtered_df = df[df["pollster"].isin(selected_pollsters)]
filtered_df(d, selected) ==
    SelectSeq(d, LAMBDA row :
                    \E i \in DOMAIN selected : selected[i] = row.pollster)

\* st.sidebar.slider(..., min_value=2, max_value=20, value=5)
span_value(store) ==
    IF SliderLabel \in DOMAIN store THEN store[SliderLabel] ELSE SpanDefault

(***************************************************************************)
(* Aggregation and smoothing: lines 104-120.                               *)
(***************************************************************************)
MinOf(S) == CHOOSE x \in S : \A y \in S : x <= y

RECURSIVE SortedSeq(_)
SortedSeq(S) ==
    IF S = {} THEN <<>> ELSE <<MinOf(S)>> \o SortedSeq(S \ {MinOf(S)})

RECURSIVE SumOf(_, _)
SumOf(rows, metric) ==
    IF rows = <<>> THEN 0 ELSE rows[1][metric] + SumOf(Tail(rows), metric)

\* Variant: a pollster with several observations on a day counts once in
\* the divisor.
GroupMean_PerPollster(group, metric) ==
    Frac(SumOf(group, metric),
         Cardinality({group[i].pollster : i \in DOMAIN group}))

\* The mean of one group.
GroupMean(group, metric) == Frac(SumOf(group, metric), Len(group))

GroupsOf(frame, metric, keys) ==
    [k \in DOMAIN keys |->
        [date |-> keys[k],
         average |-> GroupMean(SelectSeq(frame, LAMBDA row : row.date = keys[k]),
                               metric)]]

\* .groupby("date")[metric].mean().reset_index(name="average"): one row per
\* distinct date of the frame, in ascending key order.
GroupByMean(frame, metric) ==
    GroupsOf(frame, metric, SortedSeq({frame[i].date : i \in DOMAIN frame}))

\* .sort_values("date")
RemoveAt(rows, i) ==
    [j \in 1..(Len(rows) - 1) |-> IF j < i THEN rows[j] ELSE rows[j + 1]]

FirstMin(rows) ==
    CHOOSE i \in DOMAIN rows :
        /\ \A j \in DOMAIN rows : rows[i].date <= rows[j].date
        /\ \A j \in 1..(i - 1) : rows[j].date # rows[i].date

RECURSIVE SortFrom(_, _)
SortFrom(rows, i) ==
    <<rows[i]>> \o (IF Len(rows) = 1 THEN <<>>
                    ELSE SortFrom(RemoveAt(rows, i), FirstMin(RemoveAt(rows, i))))

SortValues(rows) == IF rows = <<>> THEN <<>> ELSE SortFrom(rows, FirstMin(rows))

\* One step of pandas' ewm(span, adjust=False).mean():
\*   old_wt = 1 * old_wt_factor
\*   weighted = (old_wt * weighted + new_wt * cur) / (old_wt + new_wt)
EwmBlend(weighted, cur, old_wt, new_wt) ==
    IF weighted = cur THEN weighted
    ELSE FDiv(FAdd(FMul(old_wt, weighted), FMul(new_wt, cur)),
              FAdd(old_wt, new_wt))

\* Variant: alpha = 1 / span.
EwmStep_AlphaInverseSpan(weighted, cur, span) ==
    EwmBlend(weighted, cur, FSub1(Frac(1, span)), Frac(1, span))

\*   alpha = 2 / (span + 1); old_wt_factor = 1 - alpha; new_wt = alpha
EwmStep(weighted, cur, span) ==
    EwmBlend(weighted, cur, FSub1(Frac(2, span + 1)), Frac(2, span + 1))

EwmAppend(prev, cur, span) ==
    Append(prev, EwmStep(prev[Len(prev)], cur, span))

RECURSIVE Ewm(_, _)
Ewm(vals, span) ==
    IF Len(vals) <= 1 THEN vals
    ELSE EwmAppend(Ewm(SubSeq(vals, 1, Len(vals) - 1), span),
                   vals[Len(vals)], span)

WithSmoothed(avg, sm) ==
    [k \in DOMAIN avg |->
        [date |-> avg[k].date, average |-> avg[k].average, smoothed |-> sm[k]]]

Averages(avg) == [k \in DOMAIN avg |-> avg[k].average]

Smoothed(avg, span) == WithSmoothed(avg, Ewm(Averages(avg), span))

\* daily_avg_<metric>, with its "smoothed" column
daily_avg(frame, metric, span) ==
    Smoothed(SortValues(GroupByMean(frame, metric)), span)

(***************************************************************************)
(* Headline values: lines 122-125.                                         *)
(***************************************************************************)
\* Variant: the date of the first row instead of the greatest.
DateMax_First(series) ==
    IF series = <<>> THEN <<>> ELSE <<series[1].date>>

\* daily_avg_approve["date"].max(): NaT (<<>>) on an empty frame
DateMax(series) ==
    IF series = <<>> THEN <<>>
    ELSE <<CHOOSE m \in {series[k].date : k \in DOMAIN series} :
              \A k \in DOMAIN series : series[k].date <= m>>

\* series.loc[series["date"] == latest, "smoothed"].values
SmoothedOf(hit) == [k \in DOMAIN hit |-> hit[k].smoothed]

SmoothedAt(series, latest) ==
    SmoothedOf(SelectSeq(series,
                         LAMBDA r : latest # <<>> /\ r.date = latest[1]))

\* `.values[0]` raises IndexError on an empty array, which ends the run
\* before anything below that line is shown.
Headline(approve, disapprove, latest, a, b) ==
    [daily_avg_approve |-> approve,
     daily_avg_disapprove |-> disapprove,
     latest_date |-> latest,
     latest_approve |-> IF a = <<>> THEN <<>> ELSE <<a[1]>>,
     latest_disapprove |-> IF a = <<>> \/ b = <<>> THEN <<>> ELSE <<b[1]>>,
     status |-> IF a = <<>> \/ b = <<>> THEN "exception" ELSE "rendered"]

Latest(approve, disapprove, latest) ==
    Headline(approve, disapprove, latest,
             SmoothedAt(approve, latest), SmoothedAt(disapprove, latest))

Averaged(approve, disapprove) ==
    Latest(approve, disapprove, DateMax(approve))

Aggregated(filtered, span) ==
    Averaged(daily_avg(filtered, "Approve", span),
             daily_avg(filtered, "Disapprove", span))

\* Lines 96-125 for a given frame, selection and span.
Pipeline(d, dict, span) ==
    Aggregated(filtered_df(d, selected_pollsters(dict, d)), span)

(***************************************************************************)
(* One run of the script.                                                  *)
(***************************************************************************)
\* Variant: Approve is not asked for.
ColumnsOk_NoApprove(cols) == {"pollster", "date"} \subseteq cols

\* required_cols.issubset(df.columns)
ColumnsOk(cols) == required_cols \subseteq cols

Commit(ev, ss, dict, span, out) ==
    /\ session_state' = ss
    /\ checkbox_state' = RenderedCheckboxes(ss, dict)
    /\ slider_state' = (SliderLabel :> span)
    /\ selected_pollsters_dict' = dict
    /\ daily_avg_approve' = out.daily_avg_approve
    /\ daily_avg_disapprove' = out.daily_avg_disapprove
    /\ latest_date' = out.latest_date
    /\ latest_approve' = out.latest_approve
    /\ latest_disapprove' = out.latest_disapprove
    /\ status' = out.status
    /\ event' = ev
    /\ UNCHANGED <<columns, df>>

Selected(ev, ss, d, dict, span) ==
    Commit(ev, ss, dict, span, Pipeline(d, dict, span))

Sidebar(ev, cb, sl, ss, d) ==
    Selected(ev, ss, d, CheckboxList(ss, cb, d), span_value(sl))

\* st.error(...); st.stop()
Stop(ev) ==
    /\ status' = "stopped"
    /\ event' = ev
    /\ UNCHANGED <<columns, df, session_state, checkbox_state, slider_state,
                   selected_pollsters_dict, daily_avg_approve,
                   daily_avg_disapprove, latest_date, latest_approve,
                   latest_disapprove>>

\* `cb` and `sl` are the widget values the browser sends with the rerun
\* request: the stored ones, with the widget the user touched changed.
Run(ev, cb, sl) ==
    IF ~ColumnsOk(columns) THEN Stop(ev)
    ELSE Sidebar(ev, cb, sl,
                 ButtonHandlers(InitSessionState(session_state), ev),
                 AddDisapprove(columns, df))

\* The sidebar is on screen once a run got past st.stop().
Interactive == status \in {"rendered", "exception"}

\* First run of a session.
Load ==
    /\ event = <<"none", "">>
    /\ Run(<<"load", "">>, checkbox_state, slider_state)

PressSelectAll ==
    /\ Interactive
    /\ Run(<<"select_all", "">>, checkbox_state, slider_state)

PressDeselectAll ==
    /\ Interactive
    /\ Run(<<"deselect_all", "">>, checkbox_state, slider_state)

PressBest538 ==
    /\ Interactive
    /\ Run(<<"best538", "">>, checkbox_state, slider_state)

\* The user flips the checkbox of pollster p.
Toggle(p) ==
    /\ Interactive
    /\ \E id \in DOMAIN checkbox_state :
          /\ id[1] = p
          /\ Run(<<"toggle", p>>,
                 [checkbox_state EXCEPT ![id] = ~checkbox_state[id]],
                 slider_state)

\* The user moves the slider to s.
Slide(s) ==
    /\ Interactive
    /\ s # slider_state[SliderLabel]
    /\ Run(<<"slider", "">>, checkbox_state, (SliderLabel :> s))

Init ==
    /\ columns \in ColumnChoices
    /\ df \in Datasets
    /\ session_state = NoState
    /\ checkbox_state = [id \in {} |-> FALSE]
    /\ slider_state = [l \in {} |-> 0]
    /\ event = <<"none", "">>
    /\ status = "none"
    /\ selected_pollsters_dict = [p \in {} |-> FALSE]
    /\ daily_avg_approve = <<>>
    /\ daily_avg_disapprove = <<>>
    /\ latest_date = <<>>
    /\ latest_approve = <<>>
    /\ latest_disapprove = <<>>

Next ==
    \/ Load
    \/ PressSelectAll
    \/ PressDeselectAll
    \/ PressBest538
    \/ \E p \in Known(df) : Toggle(p)
    \/ \E s \in SpanChoices : Slide(s)

Spec == Init /\ [][Next]_vars

(***************************************************************************)
(* The computation of lines 93-125 as a function of the frame, the         *)
(* selection and the span: every subset of the known pollsters (each is    *)
(* reachable by ticking checkboxes) and every slider position.             *)
(***************************************************************************)
Apply(dict, span, out) ==
    /\ selected_pollsters_dict' = dict
    /\ slider_state' = (SliderLabel :> span)
    /\ daily_avg_approve' = out.daily_avg_approve
    /\ daily_avg_disapprove' = out.daily_avg_disapprove
    /\ latest_date' = out.latest_date
    /\ latest_approve' = out.latest_approve
    /\ latest_disapprove' = out.latest_disapprove
    /\ status' = out.status
    /\ event' = <<"pipeline", "">>
    /\ UNCHANGED <<columns, df, session_state, checkbox_state>>

ApplyTo(d, dict, span) == Apply(dict, span, Pipeline(d, dict, span))

ApplyPipeline(sel, span) ==
    /\ event = <<"none", "">>
    /\ ApplyTo(AddDisapprove(columns, df), [p \in Known(df) |-> p \in sel], span)

InitPipeline ==
    /\ Init
    /\ ColumnsOk(columns)

NextPipeline ==
    \E sel \in SUBSET Known(df) : \E s \in SpanMin..SpanMax :
        ApplyPipeline(sel, s)

SpecPipeline == InitPipeline /\ [][NextPipeline]_vars

(***************************************************************************)
(* Vocabulary of the properties.                                           *)
(***************************************************************************)
\* The last run got past the column check.
Ran == status \in {"rendered", "exception"}

CurrentSelection == {p \in DOMAIN selected_pollsters_dict : selected_pollsters_dict[p]}

\* The active bulk rule the two session flags encode.
Rule(ss) ==
    IF ss["best538"] THEN "curated"
    ELSE IF ss["select_all"] THEN "all" ELSE "none"

RuleOfButton(kind) ==
    IF kind = "best538" THEN "curated"
    ELSE IF kind = "select_all" THEN "all" ELSE "none"

BulkButtons == {"select_all", "deselect_all", "best538"}

\* The distinct pollster names of the table.
KnownPollsters == {df[i].pollster : i \in DOMAIN df}

\* The table as the aggregation sees it.
Loaded == AddDisapprove(columns, df)

\* Row numbers of the observations of selected pollsters on day `day`.
Contributing(day) ==
    {i \in DOMAIN df : df[i].pollster \in CurrentSelection /\ df[i].date = day}

RECURSIVE Total(_, _)
Total(I, metric) ==
    IF I = {} THEN 0
    ELSE LET i == CHOOSE i \in I : TRUE
         IN  Loaded[i][metric] + Total(I \ {i}, metric)

Scenario ==
    << [pollster |-> "A", date |-> 1, Approve |-> 40, Disapprove |-> 55],
       [pollster |-> "B", date |-> 1, Approve |-> 44, Disapprove |-> 50],
       [pollster |-> "A", date |-> 2, Approve |-> 30, Disapprove |-> 65] >>

AveragesOf(series) == [k \in DOMAIN series |-> series[k].average]
SmoothedValuesOf(series) == [k \in DOMAIN series |-> series[k].smoothed]
DatesOf(series) == [k \in DOMAIN series |-> series[k].date]

(***************************************************************************)
(* C1.  After the user unticks a pollster p and then presses "538 Best     *)
(* pollsters", p is included exactly when p is in the curated list: the    *)
(* earlier untick does not survive the bulk action, whatever rule was      *)
(* active before.                                                          *)
(***************************************************************************)
C1_BulkOverwrite ==
    [][(/\ event[1] = "toggle"
        /\ ~selected_pollsters_dict[event[2]]
        /\ event'[1] = "best538")
       => (selected_pollsters_dict'[event[2]]
             = (event[2] \in best_ranked_pollsters))]_vars

(***************************************************************************)
(* C2.  A run whose selection is empty ends without an error: both daily   *)
(* aggregates (with their smoothed columns) are empty, no headline value   *)
(* is given, and the run reaches rendering.                                *)
(***************************************************************************)
C2_EmptySelectionSafe ==
    (Ran /\ CurrentSelection = {})
    => /\ status = "rendered"
       /\ daily_avg_approve = <<>>
       /\ daily_avg_disapprove = <<>>
       /\ latest_approve = <<>>
       /\ latest_disapprove = <<>>

(***************************************************************************)
(* C3.  The run that handles a bulk button yields an inclusion mapping     *)
(* determined by that button alone: Select All includes every known        *)
(* pollster, Deselect All none, and the curated button exactly the known   *)
(* pollsters of the curated list.                                          *)
(***************************************************************************)
C3_BulkResult ==
    Ran =>
      /\ event[1] = "select_all" =>
            \A p \in KnownPollsters : selected_pollsters_dict[p]
      /\ event[1] = "deselect_all" =>
            \A p \in KnownPollsters : ~selected_pollsters_dict[p]
      /\ event[1] = "best538" =>
            \A p \in KnownPollsters :
                selected_pollsters_dict[p] = (p \in best_ranked_pollsters)

(***************************************************************************)
(* C4.  Flipping the checkbox of p flips the inclusion of p, leaves the    *)
(* inclusion of every other known pollster and the two session flags as    *)
(* they were, and the mapping still has exactly the known pollsters as     *)
(* keys.                                                                   *)
(***************************************************************************)
C4_ToggleFrame ==
    [][event'[1] = "toggle" =>
        /\ selected_pollsters_dict'[event'[2]] = ~selected_pollsters_dict[event'[2]]
        /\ \A q \in KnownPollsters \ {event'[2]} :
              selected_pollsters_dict'[q] = selected_pollsters_dict[q]
        /\ session_state' = session_state
        /\ DOMAIN selected_pollsters_dict' = KnownPollsters]_vars

C4_Witness ==
    /\ event[1] = "toggle"
    /\ session_state["select_all"]
    /\ ~selected_pollsters_dict[event[2]]
    /\ \E q \in KnownPollsters \ {event[2]} : selected_pollsters_dict[q]
    /\ \E q \in KnownPollsters \ {event[2]} : ~selected_pollsters_dict[q]

(***************************************************************************)
(* C5.  A table that lacks pollster, date or Approve stops the run before  *)
(* session state, selection, aggregation or headline values are touched;   *)
(* a table with all three gets as far as the aggregation.                  *)
(***************************************************************************)
C5_MissingColumnsHalt ==
    event[1] # "none" =>
        IF {"pollster", "date", "Approve"} \subseteq columns
        THEN /\ Ran
             /\ DOMAIN selected_pollsters_dict = KnownPollsters
        ELSE /\ status = "stopped"
             /\ session_state = NoState
             /\ DOMAIN checkbox_state = {}
             /\ DOMAIN selected_pollsters_dict = {}
             /\ daily_avg_approve = <<>>
             /\ daily_avg_disapprove = <<>>
             /\ latest_approve = <<>>
             /\ latest_disapprove = <<>>

C5_Witness ==
    /\ status = "stopped"
    /\ "Approve" \notin columns
    /\ df # <<>>

(***************************************************************************)
(* C6.  Each daily aggregate has exactly one entry per date on which a     *)
(* selected pollster has an observation, in strictly increasing date       *)
(* order, and the entry's value is the plain mean of the metric over those *)
(* observations, each counted once.  On the three-row scenario the approve *)
(* means are 42 and 30 with A and B selected, 40 and 30 with A alone.      *)
(***************************************************************************)
IsDailyAggregate(series, metric) ==
    /\ {series[k].date : k \in DOMAIN series}
         = {df[i].date : i \in {j \in DOMAIN df : df[j].pollster \in CurrentSelection}}
    /\ \A k \in 1..(Len(series) - 1) : series[k].date < series[k + 1].date
    /\ \A k \in DOMAIN series :
          /\ series[k].average[2] > 0
          /\ series[k].average[1] * Cardinality(Contributing(series[k].date))
               = Total(Contributing(series[k].date), metric) * series[k].average[2]

C6_Aggregator ==
    Ran =>
      /\ IsDailyAggregate(daily_avg_approve, "Approve")
      /\ IsDailyAggregate(daily_avg_disapprove, "Disapprove")
      /\ (df = Scenario /\ CurrentSelection = {"A", "B"}) =>
            /\ DatesOf(daily_avg_approve) = <<1, 2>>
            /\ AveragesOf(daily_avg_approve) = <<FInt(42), FInt(30)>>
      /\ (df = Scenario /\ CurrentSelection = {"A"}) =>
            /\ DatesOf(daily_avg_approve) = <<1, 2>>
            /\ AveragesOf(daily_avg_approve) = <<FInt(40), FInt(30)>>

C6_Witness ==
    /\ Ran
    /\ df = Scenario
    /\ CurrentSelection = {"A", "B"}
    /\ AveragesOf(daily_avg_approve) = <<FInt(42), FInt(30)>>

(***************************************************************************)
(* C7.  For every span from 2 to 20 the smoothed column has one value per  *)
(* entry of the daily aggregate, the first equal to the first mean and     *)
(* each later one alpha * mean + (1 - alpha) * previous smoothed value     *)
(* with alpha = 2 / (span + 1), computed from the sequence of this run.    *)
(* Means 42, 30 with span 2 smooth to 42, 34.                              *)
(***************************************************************************)
IsSmoothed(series, span) ==
    \A k \in DOMAIN series :
        IF k = 1 THEN series[k].smoothed = series[k].average
        ELSE series[k].smoothed
               = FAdd(FMul(Frac(2, span + 1), series[k].average),
                      FMul(Frac(span - 1, span + 1), series[k - 1].smoothed))

C7_Smoother ==
    Ran =>
      /\ slider_state[SliderLabel] \in SpanMin..SpanMax
      /\ IsSmoothed(daily_avg_approve, slider_state[SliderLabel])
      /\ IsSmoothed(daily_avg_disapprove, slider_state[SliderLabel])
      /\ DatesOf(daily_avg_approve)
           = SortedSeq({df[i].date : i \in {j \in DOMAIN df : df[j].pollster \in CurrentSelection}})
      /\ (AveragesOf(daily_avg_approve) = <<FInt(42), FInt(30)>>
            /\ slider_state[SliderLabel] = 2)
         => SmoothedValuesOf(daily_avg_approve) = <<FInt(42), FInt(34)>>

C7_Witness ==
    /\ Ran
    /\ slider_state[SliderLabel] = 2
    /\ AveragesOf(daily_avg_approve) = <<FInt(42), FInt(30)>>
    /\ SmoothedValuesOf(daily_avg_approve) = <<FInt(42), FInt(34)>>

(***************************************************************************)
(* C8.  On the first run of a session the deployment default (best538 set, *)
(* select_all clear) makes Curated the initial rule: the selection is      *)
(* exactly the known pollsters of the curated list, and every known        *)
(* pollster has an inclusion value.                                        *)
(***************************************************************************)
C8_InitialSelection ==
    (event[1] = "load" /\ Ran) =>
        /\ DOMAIN selected_pollsters_dict = KnownPollsters
        /\ CurrentSelection = KnownPollsters \cap best_ranked_pollsters
        /\ Rule(session_state) = "curated"

C8_Witness ==
    /\ event[1] = "load"
    /\ Ran
    /\ CurrentSelection = {"Gallup"}
    /\ KnownPollsters = {"A", "B", "Gallup"}

(***************************************************************************)
(* C9.  When the approve series is not empty the run does not fail; the    *)
(* approval headline is the smoothed approve value at the greatest date of *)
(* the approve series and the disapproval headline is the smoothed         *)
(* disapprove value at that same date, or is omitted, without failing, if  *)
(* the disapprove series has no entry there.                               *)
(***************************************************************************)
C9_Headline ==
    (Ran /\ daily_avg_approve # <<>>) =>
        LET last == daily_avg_approve[Len(daily_avg_approve)]
            hits == {k \in DOMAIN daily_avg_disapprove :
                        daily_avg_disapprove[k].date = last.date}
        IN  /\ status = "rendered"
            /\ \A k \in DOMAIN daily_avg_approve :
                  daily_avg_approve[k].date <= last.date
            /\ latest_date = <<last.date>>
            /\ latest_approve = <<last.smoothed>>
            /\ IF hits = {} THEN latest_disapprove = <<>>
               ELSE \E k \in hits :
                       latest_disapprove = <<daily_avg_disapprove[k].smoothed>>

C9_Witness ==
    /\ status = "rendered"
    /\ Len(daily_avg_approve) = 3
    /\ latest_date = <<3>>
    /\ latest_approve # <<daily_avg_approve[1].smoothed>>
    /\ latest_disapprove = <<daily_avg_disapprove[3].smoothed>>
    /\ latest_disapprove # <<daily_avg_disapprove[2].smoothed>>

(***************************************************************************)
(* C10.  The session flags select_all and best538 are never both set, and  *)
(* the rule they encode is the rule of the bulk button pressed last, or    *)
(* Curated, the initial rule, while none has been pressed.                 *)
(***************************************************************************)
C10_OneRule ==
    [][Ran' =>
        /\ ~(session_state'["select_all"] /\ session_state'["best538"])
        /\ Rule(session_state')
             = IF event'[1] \in BulkButtons THEN RuleOfButton(event'[1])
               ELSE IF event'[1] = "load" THEN "curated"
               ELSE Rule(session_state)]_vars

C10_Witness ==
    /\ event[1] = "toggle"
    /\ Ran
    /\ Rule(session_state) = "none"
    /\ CurrentSelection # {}

====
